---- MODULE Spec2Model ----
(***************************************************************************)
(* GTFS bus counter: the ingestion transform (ingest/ingest_gtfs.py) that  *)
(* writes one parquet partition per feed into five tables, the radius /    *)
(* time-window query of buses_app.py that reads them, and the "Run query"  *)
(* handler of the Streamlit page that batches the query over sites.        *)
(*                                                                         *)
(* A DataFrame is [columns |-> <<names>>, rows |-> <<row>>], a row being a *)
(* function from the column names to cell values.  Text cells are strings, *)
(* numeric cells integers; a missing cell (None / NaN) is NULL.            *)
(* Time-of-day strings are kept as the sequence of their ":"-separated     *)
(* numeric fields ("07:45" is <<7, 45>>, "08:00:00" is <<8, 0, 0>>).       *)
(* Longitudes / latitudes are integer offsets in units of 1e-4 degree.     *)
(***************************************************************************)
EXTENDS Integers, Sequences, FiniteSets, TLC

\* ------------------------------------------------------------------ bounds
MaxRuns == 3
MaxSites == 2

\* ------------------------------------------------------------- DataFrames
NULL == "null"

Range(s) == {s[i] : i \in DOMAIN s}

HasColumn(df, c) == c \in Range(df.columns)

\* DataFrame.rename(columns={old: new}); labels that are absent are ignored
Rename(df, old, new) ==
  IF ~HasColumn(df, old) THEN df
  ELSE [columns |-> [i \in DOMAIN df.columns |->
                       IF df.columns[i] = old THEN new ELSE df.columns[i]],
        rows |-> [i \in DOMAIN df.rows |->
                    [c \in (Range(df.columns) \ {old}) \cup {new} |->
                       IF c = new THEN df.rows[i][old] ELSE df.rows[i][c]]]]

\* DataFrame.assign(c=v) and df[c] = v with a scalar: an existing column is
\* overwritten in place, a new one is appended as the last column
SetColumn(df, c, v) ==
  [columns |-> IF HasColumn(df, c) THEN df.columns ELSE Append(df.columns, c),
   rows |-> [i \in DOMAIN df.rows |->
               [k \in Range(df.columns) \cup {c} |->
                  IF k = c THEN v ELSE df.rows[i][k]]]]

\* df[cols]: the listed columns in the listed order (KeyError when one is
\* absent: callers test CanSelect first)
CanSelect(df, cols) == \A i \in DOMAIN cols : HasColumn(df, cols[i])

Select(df, cols) ==
  [columns |-> cols,
   rows |-> [i \in DOMAIN df.rows |-> [c \in Range(cols) |-> df.rows[i][c]]]]

\* for c in COLS: if c not in df.columns: df[c] = None
RECURSIVE FillMissing(_, _)
FillMissing(df, cols) ==
  IF cols = <<>> THEN df
  ELSE FillMissing(IF HasColumn(df, Head(cols)) THEN df
                   ELSE SetColumn(df, Head(cols), NULL), Tail(cols))

\* one row of the left frame with one matching row of the right frame
CombineRows(l, r) ==
  [c \in DOMAIN l \cup DOMAIN r |-> IF c \in DOMAIN l THEN l[c] ELSE r[c]]

\* left.merge(right, on=key, how="inner"): order of the left keys is kept,
\* left rows without a match are dropped, a left row with n matches gives n rows
RECURSIVE MergeRows(_, _, _)
MergeRows(L, R, key) ==
  IF L = <<>> THEN <<>>
  ELSE LET l == Head(L)
           hit == SelectSeq(R, LAMBDA r : r[key] = l[key])
       IN [i \in DOMAIN hit |-> CombineRows(l, hit[i])] \o MergeRows(Tail(L), R, key)

Merge(left, right, key) ==
  [columns |-> left.columns \o SelectSeq(right.columns, LAMBDA c : c # key),
   rows |-> MergeRows(left.rows, right.rows, key)]

\* ------------------------------------------------------------ time codecs
\* buses_app.to_sec: hh, mm, *rest = hms.split(":"); ss = int(rest[0]) if rest else 0
to_sec(hms) ==
  LET ss == IF Len(hms) > 2 THEN hms[3] ELSE 0
  IN hms[1] * 3600 + hms[2] * 60 + ss

\* ingest_gtfs.to_sec: h, m, s = (hms + ":00").split(":")[:3]
ingest_to_sec(hms) ==
  LET f == SubSeq(Append(hms, 0), 1, 3)
  IN f[1] * 3600 + f[2] * 60 + f[3]

\* --------------------------------------------------- coordinate projector
\* Transformer EPSG:4326 -> EPSG:2263 (feet) around New York: 1e-4 degree of
\* longitude is about 28 ft, 1e-4 degree of latitude about 36 ft.
Transform(lon, lat) == <<28 * lon, 36 * lat>>

\* ------------------------------------------------------- source bundles
IndexOf(cols, c) == CHOOSE i \in DOMAIN cols : cols[i] = c

Frame(cols, vals) ==
  [columns |-> cols,
   rows |-> [i \in DOMAIN vals |-> [c \in Range(cols) |-> vals[i][IndexOf(cols, c)]]]]

CalendarCols ==
  <<"service_id", "monday", "tuesday", "wednesday", "thursday", "friday",
    "saturday", "sunday", "start_date", "end_date">>

StopTimeCols == <<"trip_id", "arrival_time", "departure_time", "stop_id", "stop_sequence">>

\* feed A: every optional column present, two stops next to the default point
BundleA ==
  [routes |-> Frame(<<"route_id", "agency_id", "route_short_name", "route_long_name",
                      "route_desc", "route_type", "route_color", "route_text_color">>,
                    << <<"B1", "MTA", "B1", "Bay Ridge", NULL, "3", "00AEEF", "FFFFFF">> >>),
   trips |-> Frame(<<"route_id", "service_id", "trip_id", "trip_headsign", "direction_id">>,
                   << <<"B1", "WK", "T1", "Downtown", 0>>,
                      <<"B1", "WK", "T2", "Downtown", 0>>,
                      <<"B1", "SAT", "T3", "Uptown", 1>> >>),
   stops |-> Frame(<<"stop_id", "stop_name", "stop_desc", "stop_lat", "stop_lon",
                     "location_type", "parent_station", "zone_id">>,
                   << <<"101", "Main St", NULL, 0, 0, "0", NULL, "Z1">>,
                      <<"102", "Oak Av", "corner", 5, 5, "0", NULL, "Z1">> >>),
   stop_times |-> Frame(StopTimeCols,
                   << <<"T1", <<8, 0, 0>>, <<8, 0, 0>>, "101", 1>>,
                      <<"T1", <<8, 45, 0>>, <<8, 45, 0>>, "102", 2>>,
                      <<"T2", <<23, 45, 0>>, <<23, 45, 0>>, "101", 1>>,
                      <<"T2", <<0, 15>>, <<0, 15>>, "102", 2>>,
                      <<"T3", <<12, 0, 0>>, <<12, 0, 0>>, "101", 1>>,
                      <<"T3", <<8, 45, 1>>, <<8, 45, 1>>, "102", 2>>,
                      <<"T9", <<8, 0, 0>>, <<8, 0, 0>>, "101", 1>> >>),
   calendar |-> Frame(CalendarCols,
                   << <<"WK", 1, 1, 1, 1, 1, 0, 0, "20250101", "20251231">>,
                      <<"SAT", 0, 0, 0, 0, 0, 1, 0, "20250101", "20251231">> >>)]

\* a later export of feed A with a shorter timetable
BundleA2 ==
  [BundleA EXCEPT !.stop_times =
     [columns |-> StopTimeCols, rows |-> SubSeq(BundleA.stop_times.rows, 1, 2)]]

\* feed B: optional columns missing, and the raw identifiers "101", "B1" and
\* "WK" of feed A used again for another stop, route and calendar entry
BundleB ==
  [routes |-> Frame(<<"route_id", "route_short_name", "route_long_name", "route_type">>,
                    << <<"B1", "B1", "Broadway", "3">> >>),
   trips |-> Frame(<<"trip_id", "route_id", "service_id", "direction_id", "trip_headsign">>,
                   << <<"U1", "B1", "WK", 0, "Queens">> >>),
   stops |-> Frame(<<"stop_id", "stop_name", "stop_lat", "stop_lon">>,
                   << <<"101", "Main St", 0, 20>>,
                      <<"201", "Elm St", 5, 5>> >>),
   stop_times |-> Frame(StopTimeCols,
                   << <<"U1", <<7, 44, 59>>, <<7, 44, 59>>, "101", 1>>,
                      <<"U1", <<8, 0, 0>>, <<8, 0, 0>>, "201", 2>> >>),
   calendar |-> Frame(CalendarCols,
                   << <<"WK", 1, 1, 1, 1, 1, 0, 0, "20250101", "20251231">>,
                      <<"SUN", 0, 0, 0, 0, 0, 0, 1, "20250101", "20251231">> >>),
   calendar_dates |-> Frame(<<"service_id", "date", "exception_type">>,
                   << <<"WK", "20250704", "2">> >>)]

\* feed A exported without the optional trips column trip_headsign
BundleNoHeadsign ==
  [BundleA EXCEPT !.trips =
     Select(BundleA.trips, <<"route_id", "service_id", "trip_id", "direction_id">>)]

\* a bundle without calendar.txt
BundleNoCalendar ==
  [t \in {"routes", "trips", "stops", "stop_times"} |-> BundleB[t]]

\* what can be fetched: location -> the tables of the zip found there
Files ==
  [loc \in {"a.zip", "a2.zip", "b.zip", "nohead.zip", "nocal.zip"} |->
     CASE loc = "a.zip" -> BundleA
       [] loc = "a2.zip" -> BundleA2
       [] loc = "b.zip" -> BundleB
       [] loc = "nohead.zip" -> BundleNoHeadsign
       [] OTHER -> BundleNoCalendar]

\* entries of ingest/feeds.yml; a key that is absent from the entry is ""
FeedCfg(id, source, path, url) == [id |-> id, source |-> source, path |-> path, url |-> url]

FeedA == FeedCfg("A", "file", "a.zip", "")
FeedA2 == FeedCfg("A", "File", "", "a2.zip")
FeedNoHeadsign == FeedCfg("A", "file", "nohead.zip", "")
FeedB == FeedCfg("B", "url", "", "b.zip")
FeedGone == FeedCfg("B", "sharelink", "", "gone.zip")
FeedNoCalendar == FeedCfg("C", "file", "nocal.zip", "")
FeedFtp == FeedCfg("C", "ftp", "", "b.zip")

\* the feeds lists main is run with
Configs ==
  {<<>>, <<FeedA>>, <<FeedA, FeedB>>, <<FeedB, FeedA2>>, <<FeedA, FeedA>>,
   <<FeedNoCalendar, FeedA>>, <<FeedA, FeedNoHeadsign, FeedB>>,
   <<FeedGone, FeedA>>, <<FeedB, FeedFtp>>}

\* the (feed_id, bundle) pairs build_one is called with on its own
DirectBuilds == {<<"A", "a.zip">>, <<"A", "a2.zip">>, <<"B", "b.zip">>, <<"B", "nohead.zip">>}

\* ------------------------------------------------------------- ingestion
TableNames == <<"dim_stops", "dim_trips", "dim_routes", "calendar_base", "fact_stop_events">>

Lower(src) == IF src = "File" THEN "file" ELSE src

\* load_zip_bytes: [err, loc]; err = "" when the bytes at loc are returned.
\* reachable tells whether the network answers this time.
load_zip_bytes(feed_cfg, reachable) ==
  LET src == Lower(IF feed_cfg.source = "" THEN "url" ELSE feed_cfg.source)
      p == IF feed_cfg.path # "" THEN feed_cfg.path ELSE feed_cfg.url
  IN CASE src = "file" ->
            IF p = "" THEN [err |-> "ValueError", loc |-> ""]
            ELSE IF p \notin DOMAIN Files THEN [err |-> "FileNotFoundError", loc |-> ""]
            ELSE [err |-> "", loc |-> p]
       [] src \in {"url", "sharelink"} ->
            IF feed_cfg.url = "" THEN [err |-> "KeyError", loc |-> ""]
            ELSE IF ~reachable \/ feed_cfg.url \notin DOMAIN Files
                 THEN [err |-> "HTTPError", loc |-> ""]
            ELSE [err |-> "", loc |-> feed_cfg.url]
       [] src = "graph" -> [err |-> "KeyError", loc |-> ""]
       [] OTHER -> [err |-> "ValueError", loc |-> ""]

RequiredFiles == {"routes", "trips", "stops", "stop_times", "calendar"}

\* load_gtfs_tables: the five required tables (KeyError when the zip lacks
\* one), calendar_dates when present
load_gtfs_tables(loc) ==
  IF ~(RequiredFiles \subseteq DOMAIN Files[loc]) THEN [err |-> "KeyError", t |-> <<>>]
  ELSE [err |-> "", t |-> Files[loc]]

STOP_COLS ==
  <<"stop_id", "stop_name", "stop_desc", "lat", "lon", "location_type",
    "parent_station", "zone_id", "feed_id">>

ROUTES_COLS ==
  <<"route_id", "agency_id", "route_short_name", "route_long_name", "route_desc",
    "route_type", "route_color", "route_text_color", "feed_id">>

TRIP_COLS == <<"trip_id", "route_id", "direction_id", "service_id", "trip_headsign">>

ST_COLS == <<"trip_id", "stop_id", "stop_sequence", "arrival_time">>

FACT_COLS ==
  <<"route_id", "direction_id", "service_id", "stop_id", "stop_sequence",
    "arrival_sec", "trip_id", "feed_id">>

\* Series.astype(str): a missing value becomes the text "nan"
AsStr(v) == IF v = NULL THEN "nan" ELSE v

\* df[c] = series: one value of the series per row, in row order
WithColumn(df, c, series) ==
  [columns |-> IF HasColumn(df, c) THEN df.columns ELSE Append(df.columns, c),
   rows |-> [i \in DOMAIN df.rows |->
               [k \in Range(df.columns) \cup {c} |->
                  IF k = c THEN series[i] ELSE df.rows[i][k]]]]

build_stops(feed_id, t) ==
  LET s1 == SetColumn(Rename(Rename(t.stops, "stop_lat", "lat"), "stop_lon", "lon"),
                      "feed_id", feed_id)
      s2 == IF HasColumn(s1, "stop_desc")
            THEN WithColumn(s1, "stop_desc",
                            [i \in DOMAIN s1.rows |-> AsStr(s1.rows[i].stop_desc)])
            ELSE s1
      s3 == Select(FillMissing(s2, STOP_COLS), STOP_COLS)
      xy == [i \in DOMAIN s3.rows |-> Transform(s3.rows[i].lon, s3.rows[i].lat)]
      s4 == WithColumn(s3, "x2263", [i \in DOMAIN xy |-> xy[i][1]])
  IN WithColumn(s4, "y2263", [i \in DOMAIN xy |-> xy[i][2]])

build_trips(feed_id, t) == SetColumn(Select(t.trips, TRIP_COLS), "feed_id", feed_id)

build_routes(feed_id, t) ==
  Select(FillMissing(SetColumn(t.routes, "feed_id", feed_id), ROUTES_COLS), ROUTES_COLS)

build_cal(feed_id, t) == SetColumn(t.calendar, "feed_id", feed_id)

build_fact(feed_id, t) ==
  LET st0 == Select(t.stop_times, ST_COLS)
      st == WithColumn(st0, "arrival_sec",
                       [i \in DOMAIN st0.rows |-> ingest_to_sec(st0.rows[i].arrival_time)])
  IN SetColumn(Select(Merge(st, build_trips(feed_id, t), "trip_id"), FACT_COLS),
               "feed_id", feed_id)

\* build_one up to its first write: [err, frames]; frames maps each table
\* name to the frame that will be written for the feed
build_one(feed_id, t) ==
  IF ~(HasColumn(t.stops, "stop_lat") /\ HasColumn(t.stops, "stop_lon"))
    THEN [err |-> "TypeError", frames |-> <<>>]
  ELSE IF ~(CanSelect(t.trips, TRIP_COLS) /\ CanSelect(t.stop_times, ST_COLS))
    THEN [err |-> "KeyError", frames |-> <<>>]
  ELSE [err |-> "",
        frames |-> [tb \in Range(TableNames) |->
                      CASE tb = "dim_stops" -> build_stops(feed_id, t)
                        [] tb = "dim_trips" -> build_trips(feed_id, t)
                        [] tb = "dim_routes" -> build_routes(feed_id, t)
                        [] tb = "calendar_base" -> build_cal(feed_id, t)
                        [] OTHER -> build_fact(feed_id, t)]]

\* a writer that appends to the file it finds instead of replacing it
to_parquet_append(files, feed_id, df) ==
  [f \in DOMAIN files \cup {feed_id} |->
     IF f # feed_id THEN files[f]
     ELSE IF feed_id \in DOMAIN files
          THEN [columns |-> df.columns, rows |-> files[feed_id].rows \o df.rows]
          ELSE df]

\* DataFrame.to_parquet(OUT / table / "<feed_id>.parquet"): the file is
\* created or replaced by the frame
to_parquet(files, feed_id, df) ==
  [f \in DOMAIN files \cup {feed_id} |-> IF f = feed_id THEN df ELSE files[f]]

\* the run that wrote <feed_id>.parquet
Stamp(tags, feed_id, n) ==
  [f \in DOMAIN tags \cup {feed_id} |-> IF f = feed_id THEN n ELSE tags[f]]

\* ------------------------------------------------------------------ state
VARIABLES
  store,      \* parquet/: table name -> (feed_id -> frame of <feed_id>.parquet)
  dirs,       \* the table directories that exist under parquet/
  wrun,       \* table name -> (feed_id -> number of the run that wrote the file)
  pc,         \* where the ingestion process is
  run,        \* number of ingestion processes started so far
  inMain,     \* build_one was entered from main's loop
  cfg,        \* main: the feeds list of ingest/feeds.yml
  idx,        \* main: position of the loop in cfg
  cur,        \* [id, loc]: the feed being ingested and where its bytes came from
  tables,     \* the raw tables handed to build_one
  out,        \* build_one: the five frames about to be written
  k,          \* index into TableNames of the next rmtree / to_parquet
  err,        \* [type, at]: the exception that ended the process and the
              \* function that raised it (type "" when none)
  built,      \* <<feed_id, loc>> -> the feed's partition after the first and
              \* after the latest completed build_one with these source bytes
  q,          \* arguments of the latest buses_by_stop_route_dir_within_radius call
  result,     \* what that call returned or raised
  ui,         \* widget values of the page
  sites,      \* st.session_state["sites"]
  clicked,    \* st.session_state.clicked_lon / clicked_lat
  result_df,  \* st.session_state["result_df"]
  calls       \* the query calls made by a "Run query" click, until the next
              \* interaction with the page

ingestVars == <<store, dirs, wrun, pc, run, inMain, cfg, idx, cur, tables, out, k, err, built>>
queryVars == <<q, result>>
uiVars == <<ui, sites, clicked, result_df, calls>>
vars == <<ingestVars, queryVars, uiVars>>

TableSet == Range(TableNames)

NoFiles == [tb \in TableSet |-> <<>>]

Stopped == {"idle", "done", "failed", "crashed"}

NoCall == [called |-> FALSE]

NoError == [type |-> "", at |-> ""]

WidgetDefaults ==
  [day_type |-> "Weekday", t_start |-> <<7, 45, 0>>, t_end |-> <<8, 45, 0>>,
   radius_ft |-> 250, selected_feeds |-> <<>>]

InitIngest ==
  /\ store = NoFiles /\ wrun = NoFiles /\ dirs = {}
  /\ pc = "idle" /\ run = 0 /\ inMain = FALSE
  /\ cfg = <<>> /\ idx = 1 /\ cur = [id |-> "", loc |-> ""]
  /\ tables = <<>> /\ out = <<>> /\ k = 1 /\ err = NoError /\ built = <<>>

InitQuery == q = NoCall /\ result = [status |-> "none", rows |-> <<>>]

NoFrame == [isNone |-> TRUE, rows |-> <<>>]

NoRun == [run |-> FALSE]

InitUI ==
  /\ ui = WidgetDefaults /\ sites = <<>> /\ clicked = <<0, 0>>
  /\ result_df = NoFrame /\ calls = NoRun

Init == InitIngest /\ InitQuery /\ InitUI

\* the feed's files, table by table (<<>> where the table has no file for it)
Partition(st, feed_id) ==
  [tb \in TableSet |-> IF feed_id \in DOMAIN st[tb] THEN <<st[tb][feed_id]>> ELSE <<>>]

\* the exception leaves main / build_one: the process ends, its locals are gone
Raise(e, at) ==
  /\ pc' = "failed" /\ err' = [type |-> e, at |-> at]
  /\ tables' = <<>> /\ out' = <<>> /\ k' = 1

\* main, lines 94-96: python -m ingest.ingest_gtfs with the given feeds.yml
MainStart(c) ==
  /\ pc \in Stopped /\ run < MaxRuns
  /\ pc' = "rmtree" /\ run' = run + 1 /\ inMain' = TRUE
  /\ cfg' = c /\ idx' = 1 /\ k' = 1 /\ err' = NoError
  /\ cur' = [id |-> "", loc |-> ""] /\ tables' = <<>> /\ out' = <<>>
  /\ UNCHANGED <<store, dirs, wrun, built>>
  /\ UNCHANGED <<queryVars, uiVars>>

\* main, lines 97-99: one shutil.rmtree(OUT/sub, ignore_errors=True)
MainRmtree ==
  /\ pc = "rmtree"
  /\ dirs' = dirs \ {TableNames[k]}
  /\ store' = [store EXCEPT ![TableNames[k]] = <<>>]
  /\ wrun' = [wrun EXCEPT ![TableNames[k]] = <<>>]
  /\ IF k < Len(TableNames) THEN k' = k + 1 /\ pc' = pc
     ELSE k' = 1 /\ pc' = "loop"
  /\ UNCHANGED <<run, inMain, cfg, idx, cur, tables, out, err, built>>
  /\ UNCHANGED <<queryVars, uiVars>>

\* main, lines 101 and 105: next feed of the loop, or the final print
MainLoop ==
  /\ pc = "loop"
  /\ IF idx > Len(cfg)
     THEN pc' = "done" /\ cur' = cur
     ELSE pc' = "load_zip" /\ cur' = [id |-> cfg[idx].id, loc |-> ""]
  /\ UNCHANGED <<store, dirs, wrun, run, inMain, cfg, idx, tables, out, k, err, built>>
  /\ UNCHANGED <<queryVars, uiVars>>

\* main, line 102
LoadZipBytes ==
  /\ pc = "load_zip"
  /\ \E reachable \in BOOLEAN :
       LET r == load_zip_bytes(cfg[idx], reachable)
       IN IF r.err # "" THEN Raise(r.err, "load_zip_bytes") /\ cur' = cur
          ELSE /\ pc' = "load_tables" /\ cur' = [cur EXCEPT !.loc = r.loc]
               /\ UNCHANGED <<err, tables, out, k>>
  /\ UNCHANGED <<store, dirs, wrun, run, inMain, cfg, idx, built>>
  /\ UNCHANGED <<queryVars, uiVars>>

\* main, line 103
LoadGtfsTables ==
  /\ pc = "load_tables"
  /\ LET r == load_gtfs_tables(cur.loc)
     IN IF r.err # "" THEN Raise(r.err, "load_gtfs_tables")
        ELSE pc' = "build" /\ tables' = r.t /\ UNCHANGED <<err, out, k>>
  /\ UNCHANGED <<store, dirs, wrun, run, inMain, cfg, idx, cur, built>>
  /\ UNCHANGED <<queryVars, uiVars>>

\* build_one called on its own with the tables of one bundle
BuildOneCall(feed_id, loc) ==
  /\ pc \in Stopped /\ run < MaxRuns
  /\ load_gtfs_tables(loc).err = ""
  /\ pc' = "build" /\ run' = run + 1 /\ inMain' = FALSE
  /\ cfg' = <<>> /\ idx' = 1 /\ k' = 1 /\ err' = NoError
  /\ cur' = [id |-> feed_id, loc |-> loc]
  /\ tables' = load_gtfs_tables(loc).t /\ out' = <<>>
  /\ UNCHANGED <<store, dirs, wrun, built>>
  /\ UNCHANGED <<queryVars, uiVars>>

\* build_one, lines 46-85: the directories, then the five frames in memory
BuildOneCompute ==
  /\ pc = "build"
  /\ dirs' = TableSet
  /\ LET r == build_one(cur.id, tables)
     IN IF r.err # "" THEN Raise(r.err, "build_one")
        ELSE pc' = "write" /\ out' = r.frames /\ k' = 1 /\ UNCHANGED <<err, tables>>
  /\ UNCHANGED <<store, wrun, run, inMain, cfg, idx, cur, built>>
  /\ UNCHANGED <<queryVars, uiVars>>

\* the record kept of a completed build_one
Completed(part) ==
  LET key == <<cur.id, cur.loc>>
      again == key \in DOMAIN built
      rec == [first |-> IF again THEN built[key].first ELSE part,
              last |-> part,
              times |-> IF again THEN 2 ELSE 1]
  IN [x \in DOMAIN built \cup {key} |-> IF x = key THEN rec ELSE built[x]]

\* build_one, lines 88-92: one to_parquet; after the fifth, build_one returns
BuildOneWrite ==
  /\ pc = "write"
  /\ store' = [store EXCEPT ![TableNames[k]] = to_parquet(@, cur.id, out[TableNames[k]])]
  /\ wrun' = [wrun EXCEPT ![TableNames[k]] = Stamp(@, cur.id, run)]
  /\ IF k < Len(TableNames)
     THEN /\ k' = k + 1
          /\ UNCHANGED <<pc, idx, tables, out, built>>
     ELSE /\ k' = 1 /\ tables' = <<>> /\ out' = <<>>
          /\ built' = Completed(Partition(store', cur.id))
          /\ IF inMain THEN pc' = "loop" /\ idx' = idx + 1
             ELSE pc' = "done" /\ idx' = idx
  /\ UNCHANGED <<dirs, run, inMain, cfg, cur, err>>
  /\ UNCHANGED <<queryVars, uiVars>>

\* the process is killed between two steps
Crash ==
  /\ pc \notin Stopped
  /\ pc' = "crashed" /\ tables' = <<>> /\ out' = <<>> /\ k' = 1
  /\ UNCHANGED <<store, dirs, wrun, run, inMain, cfg, idx, cur, err, built>>
  /\ UNCHANGED <<queryVars, uiVars>>

Next ==
  \/ \E c \in Configs : MainStart(c)
  \/ MainRmtree
  \/ MainLoop
  \/ LoadZipBytes
  \/ LoadGtfsTables
  \/ \E b \in DirectBuilds : BuildOneCall(b[1], b[2])
  \/ BuildOneCompute
  \/ BuildOneWrite
  \/ Crash

Spec == Init /\ [][Next]_vars

\* ------------------------------------------------------------ the query
\* read_parquet over the files of one table directory: the rows of every
\* feed's file, in file-name order
RECURSIVE ConcatRows(_, _)
ConcatRows(files, ids) ==
  IF ids = <<>> THEN <<>>
  ELSE (IF Head(ids) \in DOMAIN files THEN files[Head(ids)].rows ELSE <<>>)
         \o ConcatRows(files, Tail(ids))

read_parquet(st, tb) == ConcatRows(st[tb], <<"A", "B", "C">>)

Readable(st) == \A tb \in TableSet : DOMAIN st[tb] # {}

\* sel = list(selected_feeds or [])
Sel(selected_feeds) == IF selected_feeds.isNone THEN <<>> ELSE selected_feeds.list

\* feed_pred: "feed_id IN (SELECT feed_id FROM chosen_feeds)", or "TRUE"
feed_pred(row, sel) == IF sel # <<>> THEN row.feed_id \in Range(sel) ELSE TRUE

DayActive(c, day_type) ==
  \/ day_type = "Weekday" /\ (c.monday = 1 \/ c.tuesday = 1 \/ c.wednesday = 1
                               \/ c.thursday = 1 \/ c.friday = 1)
  \/ day_type = "Saturday" /\ c.saturday = 1
  \/ day_type = "Sunday" /\ c.sunday = 1

\* CTE svcs: SELECT DISTINCT feed_id, service_id FROM calendar_base WHERE ...
svcs(st, a) ==
  LET cal == read_parquet(st, "calendar_base")
  IN {[feed_id |-> cal[i].feed_id, service_id |-> cal[i].service_id] :
        i \in {n \in DOMAIN cal : feed_pred(cal[n], Sel(a.selected_feeds))
                                    /\ DayActive(cal[n], a.day_type)}}

\* the spatial predicate of CTE near_stops
WithinRadius(stop, a) ==
  LET p == Transform(a.lon, a.lat)
  IN (stop.x2263 - p[1]) * (stop.x2263 - p[1]) + (stop.y2263 - p[2]) * (stop.y2263 - p[2])
       <= a.radius_ft * a.radius_ft

\* CTE near_stops, one row per selected dim_stops row.  The CTE keeps only
\* stop_id, stop_name, lat and lon; the whole row is kept here so that the
\* feed a near stop came from can be told, and nothing else of it is read.
near_stops(st, a) ==
  SelectSeq(read_parquet(st, "dim_stops"),
            LAMBDA r : feed_pred(r, Sel(a.selected_feeds)) /\ WithinRadius(r, a))

\* the temporal filter with its ends taken exclusively
InWindowExclusive(arrival_sec, s, e) ==
  \/ e >= s /\ s < arrival_sec /\ arrival_sec < e
  \/ e < s /\ (arrival_sec > s \/ arrival_sec < e)

\* the WHERE clause, lines 107-116
InWindow(arrival_sec, s, e) ==
  \/ e >= s /\ (s <= arrival_sec /\ arrival_sec <= e)
  \/ e < s /\ (arrival_sec >= s \/ arrival_sec <= e)

\* FROM fact_stop_events f JOIN dim_trips t JOIN dim_routes r JOIN svcs v
\* JOIN near_stops s, lines 101-105, with the ON conditions as written: each
\* repeats f.feed_id = t.feed_id.  One element per joined row.
Joined(st, a) ==
  LET F == read_parquet(st, "fact_stop_events")
      T == read_parquet(st, "dim_trips")
      R == read_parquet(st, "dim_routes")
      V == svcs(st, a)
      S == near_stops(st, a)
  IN UNION {
       LET Tf == {j \in DOMAIN T : F[i].feed_id = T[j].feed_id /\ F[i].trip_id = T[j].trip_id}
           Vf == {v \in V : v.service_id = F[i].service_id}
           Sf == {m \in DOMAIN S : S[m].stop_id = F[i].stop_id}
       IN UNION {
            {[f |-> F[i], t |-> T[j], r |-> R[n], v |-> v, s |-> S[m],
              at |-> <<i, j, n, m>>] :
               n \in {x \in DOMAIN R : T[j].route_id = R[x].route_id}, v \in Vf, m \in Sf}
            : j \in Tf}
       : i \in DOMAIN F}

\* the joined rows left by the WHERE clause
Matched(st, a) ==
  {j \in Joined(st, a) : InWindow(j.f.arrival_sec, to_sec(a.start_time), to_sec(a.end_time))}

\* the GROUP BY key, which is also the row returned for the group
GroupKey(j) ==
  [feed_id |-> j.r.feed_id, route_id |-> j.r.route_id, direction_id |-> j.t.direction_id,
   stop_id |-> j.s.stop_id, stop_name |-> j.s.stop_name,
   stop_lat |-> j.s.lat, stop_lon |-> j.s.lon]

Groups(rows) ==
  {[key |-> key, buses_scheduled |-> Cardinality({j \in rows : GroupKey(j) = key})] :
     key \in {GroupKey(j) : j \in rows}}

\* collation of the text values that are sorted on
Collation == <<"A", "B", "B1", "C", "Elm St", "Main St", "Oak Av">>

Rank(text) == IndexOf(Collation, text)

\* ORDER BY s.stop_name, r.feed_id, r.route_id, t.direction_id
Before(g, h) ==
  LET a == <<Rank(g.key.stop_name), Rank(g.key.feed_id), Rank(g.key.route_id), g.key.direction_id>>
      b == <<Rank(h.key.stop_name), Rank(h.key.feed_id), Rank(h.key.route_id), h.key.direction_id>>
  IN \E n \in 1..4 : a[n] < b[n] /\ \A x \in 1..(n - 1) : a[x] = b[x]

\* every order the sort may return: rows that tie on the four sort columns
\* come in any order
RECURSIVE Sorted(_)
Sorted(G) ==
  IF G = {} THEN {<<>>}
  ELSE UNION {{<<g>> \o rest : rest \in Sorted(G \ {g})} :
                g \in {x \in G : \A y \in G : ~Before(y, x)}}

ResultRow(g) ==
  [feed_id |-> g.key.feed_id, route_id |-> g.key.route_id,
   direction_id |-> g.key.direction_id, stop_id |-> g.key.stop_id,
   stop_name |-> g.key.stop_name, stop_lat |-> g.key.stop_lat,
   stop_lon |-> g.key.stop_lon, buses_scheduled |-> g.buses_scheduled]

Raised(e) == [status |-> e, rows |-> <<>>]

\* buses_by_stop_route_dir_within_radius: every outcome of one call.  params
\* is filled only under "if sel:", so with sel empty the eleven placeholders
\* of the statement get no value and con.execute raises.
buses_by_stop_route_dir_within_radius(st, a) ==
  IF ~Readable(st) THEN {Raised("IOException")}
  ELSE IF Sel(a.selected_feeds) = <<>> THEN {Raised("InvalidInputException")}
  ELSE {[status |-> "ok", rows |-> [n \in DOMAIN order |-> ResultRow(order[n])]] :
          order \in Sorted(Groups(Matched(st, a)))}

\* ------------------------------------------------- the store that is queried
\* main run to its end on feeds that all load and build: the state it leaves
RECURSIVE IngestAll(_, _)
IngestAll(st, c) ==
  IF c = <<>> THEN st
  ELSE LET loc == load_zip_bytes(Head(c), TRUE).loc
           frames == build_one(Head(c).id, load_gtfs_tables(loc).t).frames
       IN IngestAll([tb \in TableSet |-> to_parquet(st[tb], Head(c).id, frames[tb])], Tail(c))

RECURSIVE BuiltAll(_, _, _)
BuiltAll(b, st, c) ==
  IF c = <<>> THEN b
  ELSE LET key == <<Head(c).id, load_zip_bytes(Head(c), TRUE).loc>>
           st1 == IngestAll(st, <<Head(c)>>)
           rec == [first |-> Partition(st1, key[1]), last |-> Partition(st1, key[1]),
                   times |-> 1]
       IN BuiltAll([x \in DOMAIN b \cup {key} |-> IF x = key THEN rec ELSE b[x]], st1, Tail(c))

AfterMain(c) ==
  /\ store = IngestAll(NoFiles, c)
  /\ wrun = [tb \in TableSet |-> [f \in DOMAIN store[tb] |-> 1]]
  /\ dirs = IF c = <<>> THEN {} ELSE TableSet
  /\ pc = "done" /\ run = 1 /\ inMain = TRUE
  /\ cfg = c /\ idx = Len(c) + 1
  /\ cur = IF c = <<>> THEN [id |-> "", loc |-> ""]
           ELSE [id |-> c[Len(c)].id, loc |-> load_zip_bytes(c[Len(c)], TRUE).loc]
  /\ tables = <<>> /\ out = <<>> /\ k = 1 /\ err = NoError
  /\ built = BuiltAll(<<>>, NoFiles, c)

QueriedConfigs == {<<>>, <<FeedA>>, <<FeedA, FeedB>>, <<FeedB, FeedA2>>}

\* ------------------------------------------------------- query arguments
Points == {<<0, 0>>, <<5, 5>>, <<20, 0>>}

Times == {<<7, 45>>, <<8, 45, 0>>, <<23, 30, 0>>, <<0, 30, 0>>, <<8, 0, 1>>}

DayTypes == {"Weekday", "Saturday", "Sunday"}

DayTypeArgs == DayTypes \cup {"Holiday"}

Radii == {100, 250}

NoSelection == [isNone |-> TRUE, list |-> <<>>]

Selection(l) == [isNone |-> FALSE, list |-> l]

FeedLists == {<<>>, <<"A">>, <<"B">>, <<"A", "B">>}

Call(lon, lat, start_time, end_time, day_type, radius_ft, selected_feeds) ==
  [called |-> TRUE, lon |-> lon, lat |-> lat, start_time |-> start_time,
   end_time |-> end_time, day_type |-> day_type, radius_ft |-> radius_ft,
   selected_feeds |-> selected_feeds]

\* one call of buses_by_stop_route_dir_within_radius on the store; the
\* engine is synchronous, so no other call is under way
Query(lon, lat, start_time, end_time, day_type, radius_ft, selected_feeds) ==
  /\ ~q.called
  /\ q' = Call(lon, lat, start_time, end_time, day_type, radius_ft, selected_feeds)
  /\ result' \in buses_by_stop_route_dir_within_radius(store, q')
  /\ UNCHANGED <<ingestVars, uiVars>>

\* the caller is done with the returned frame (or the exception)
QueryDone ==
  /\ q.called
  /\ q' = NoCall /\ result' = [status |-> "none", rows |-> <<>>]
  /\ UNCHANGED <<ingestVars, uiVars>>

InitQueried ==
  /\ \E c \in QueriedConfigs : AfterMain(c)
  /\ InitQuery /\ InitUI

NextQuery ==
  \/ \E p \in Points, t1 \in Times, t2 \in Times, d \in DayTypeArgs, r \in Radii,
        sf \in {NoSelection} \cup {Selection(l) : l \in FeedLists} :
       Query(p[1], p[2], t1, t2, d, r, sf)
  \/ QueryDone

SpecQuery == InitQueried /\ [][NextQuery]_vars

\* ----------------------------------------------------------- query claims
Returned == q.called /\ result.status = "ok"

SameFeed(j) ==
  /\ j.f.feed_id = j.t.feed_id /\ j.f.feed_id = j.r.feed_id
  /\ j.f.feed_id = j.v.feed_id /\ j.f.feed_id = j.s.feed_id

\* C1: every returned row is built from a stop-event, trip, route, active
\* service and near stop of one and the same feed, and a query restricted
\* to some feeds returns rows of those feeds only
C1_FeedIsolation ==
  Returned =>
    /\ \A j \in Matched(store, q) : SameFeed(j)
    /\ Sel(q.selected_feeds) # <<>> =>
         \A n \in DOMAIN result.rows : result.rows[n].feed_id \in Range(Sel(q.selected_feeds))

\* every feed identifier present in the store, listed
AllFeeds(st) ==
  SelectSeq(<<"A", "B", "C">>, LAMBDA f : \E tb \in TableSet : f \in DOMAIN st[tb])

\* C2: a call with selected_feeds empty or None completes and returns what
\* the call listing every feed of the store returns
C2_EmptySelectionMeansAllFeeds ==
  (q.called /\ Readable(store) /\ Sel(q.selected_feeds) = <<>>) =>
    /\ result.status = "ok"
    /\ result \in buses_by_stop_route_dir_within_radius(
                    store, [q EXCEPT !.selected_feeds = Selection(AllFeeds(store))])

\* the rule of the claim: both ends inclusive, the union of the tail and the
\* head of the day when the end is before the start
WindowRule(a, s, e) ==
  \/ (e >= s /\ s <= a /\ a <= e)
  \/ (e < s /\ (a >= s \/ a <= e))

RowKey(row) ==
  [feed_id |-> row.feed_id, route_id |-> row.route_id, direction_id |-> row.direction_id,
   stop_id |-> row.stop_id, stop_name |-> row.stop_name,
   stop_lat |-> row.stop_lat, stop_lon |-> row.stop_lon]

\* C3: of the joined rows of a call exactly those whose arrival_sec passes
\* the window rule are counted: each group's buses_scheduled is the number
\* of its joined rows that pass, and a group none of whose rows passes is
\* not returned
C3_TimeWindowRule ==
  Returned =>
    LET J == Joined(store, q)
        pass == {j \in J : WindowRule(j.f.arrival_sec, to_sec(q.start_time),
                                      to_sec(q.end_time))}
    IN /\ \A key \in {GroupKey(j) : j \in J} :
            LET n == Cardinality({j \in pass : GroupKey(j) = key})
                at == {i \in DOMAIN result.rows : RowKey(result.rows[i]) = key}
            IN IF n = 0 THEN at = {}
               ELSE Cardinality(at) = 1 /\ \A i \in at : result.rows[i].buses_scheduled = n
       /\ Len(result.rows) = Cardinality({GroupKey(j) : j \in pass})

\* a call for 23:30:00-00:30:00 that joined an arrival at 23:45:00, one at
\* 00:15 and one at 08:00:00, and returned rows
C3_Witness ==
  /\ Returned
  /\ q.start_time = <<23, 30, 0>> /\ q.end_time = <<0, 30, 0>>
  /\ \A a \in {85500, 900, 28800} : \E j \in Joined(store, q) : j.f.arrival_sec = a
  /\ \E n \in DOMAIN result.rows :
       result.rows[n].stop_id = "102" /\ result.rows[n].buses_scheduled = 1
  /\ \A n \in DOMAIN result.rows : result.rows[n].buses_scheduled = 1

\* C4: a call whose day_type is none of Weekday, Saturday and Sunday fails
\* and returns no result set
C4_InvalidDayTypeFails ==
  (q.called /\ q.day_type \notin DayTypes) => result.status # "ok"

\* the stop-events a returned row stands for, by the claim: those of the
\* row's feed at the row's stop, on a trip of the row's route and direction,
\* of a service active on the day type, the stop within the radius, the
\* arrival in the window
EventsOf(st, a, row) ==
  LET F == read_parquet(st, "fact_stop_events")
      T == read_parquet(st, "dim_trips")
      C == read_parquet(st, "calendar_base")
      S == read_parquet(st, "dim_stops")
  IN {i \in DOMAIN F :
        /\ F[i].feed_id = row.feed_id /\ F[i].stop_id = row.stop_id
        /\ \E j \in DOMAIN T :
             /\ T[j].feed_id = row.feed_id /\ T[j].trip_id = F[i].trip_id
             /\ T[j].route_id = row.route_id /\ T[j].direction_id = row.direction_id
        /\ \E n \in DOMAIN C :
             /\ C[n].feed_id = row.feed_id /\ C[n].service_id = F[i].service_id
             /\ DayActive(C[n], a.day_type)
        /\ \E m \in DOMAIN S :
             /\ S[m].feed_id = row.feed_id /\ S[m].stop_id = row.stop_id
             /\ WithinRadius(S[m], a)
        /\ WindowRule(F[i].arrival_sec, to_sec(a.start_time), to_sec(a.end_time))}

\* C5: buses_scheduled of every returned row is the number of those
\* stop-events, each counted once, and no returned row counts none
C5_CountCorrectness ==
  Returned =>
    \A n \in DOMAIN result.rows :
      /\ result.rows[n].buses_scheduled = Cardinality(EventsOf(store, q, result.rows[n]))
      /\ result.rows[n].buses_scheduled >= 1

\* --------------------------------------------------------------- the page
\* lines 158-163: the feeds found in dim_routes, the multiselect's options
\* and its default
DiscoverFeeds(st) ==
  SelectSeq(<<"A", "B", "C">>,
            LAMBDA f : \E i \in DOMAIN read_parquet(st, "dim_routes") :
                         read_parquet(st, "dim_routes")[i].feed_id = f)

UiPoints == {<<0, 0>>, <<5, 5>>}

SiteLabel(n) == CASE n = 1 -> "Site 1" [] n = 2 -> "Site 2" [] n = 3 -> "Site 3"
                  [] OTHER -> "Site 4"

\* any other interaction reruns the script without the "Run query" branch
Rerun == calls' = NoRun

\* lines 204-207: a click on the map
MapClick(p) ==
  /\ clicked' = p /\ Rerun
  /\ UNCHANGED <<ui, sites, result_df, ingestVars, queryVars>>

\* line 155: the radius slider
SetRadius(r) ==
  /\ ui' = [ui EXCEPT !.radius_ft = r] /\ Rerun
  /\ UNCHANGED <<clicked, sites, result_df, ingestVars, queryVars>>

\* line 163: the feeds multiselect
SelectFeeds(l) ==
  /\ Range(l) \subseteq Range(DiscoverFeeds(store))
  /\ ui' = [ui EXCEPT !.selected_feeds = l] /\ Rerun
  /\ UNCHANGED <<clicked, sites, result_df, ingestVars, queryVars>>

\* lines 210-220: "Add site" with the label left at its default
AddSite ==
  /\ Len(sites) < MaxSites
  /\ sites' = Append(sites, [name |-> SiteLabel(Len(sites) + 1), lat |-> clicked[2],
                             lon |-> clicked[1], radius_ft |-> ui.radius_ft])
  /\ Rerun
  /\ UNCHANGED <<ui, clicked, result_df, ingestVars, queryVars>>

\* lines 251-254: "Delete selected" with the rows ticked in the editor
DeleteSelected(ticked) ==
  /\ sites # <<>> /\ ticked \subseteq DOMAIN sites
  /\ LET keep == DOMAIN sites \ ticked
     IN sites' = [n \in 1..Cardinality(keep) |->
                    sites[CHOOSE i \in keep : Cardinality({j \in keep : j < i}) = n - 1]]
  /\ Rerun
  /\ UNCHANGED <<ui, clicked, result_df, ingestVars, queryVars>>

\* lines 256-258: "Clear sites all"
ClearSites ==
  /\ sites # <<>>
  /\ sites' = <<>> /\ Rerun
  /\ UNCHANGED <<ui, clicked, result_df, ingestVars, queryVars>>

\* lines 262-267: the sites queried: the list, or the clicked point alone
SitesToRun ==
  IF sites # <<>> THEN sites
  ELSE <<[name |-> "Site 1", lat |-> clicked[2], lon |-> clicked[1],
          radius_ft |-> ui.radius_ft]>>

\* lines 269-277: the call made for one site
SiteCall(site) ==
  Call(site.lon, site.lat, ui.t_start, ui.t_end, ui.day_type, site.radius_ft,
       Selection(ui.selected_feeds))

\* line 278: df_site.insert(0, "site", s["name"])
Labelled(rows, name) == [i \in DOMAIN rows |-> CombineRows([site |-> name], rows[i])]

\* lines 268-280: every outcome of the loop over ss: the calls made, whether
\* one raised, and the frames concatenated so far
RECURSIVE RunSites(_)
RunSites(ss) ==
  IF ss = <<>> THEN {[made |-> <<>>, raised |-> FALSE, rows |-> <<>>]}
  ELSE UNION {
         IF r.status # "ok"
         THEN {[made |-> <<SiteCall(Head(ss))>>, raised |-> TRUE, rows |-> <<>>]}
         ELSE {IF rest.raised
               THEN [made |-> <<SiteCall(Head(ss))>> \o rest.made, raised |-> TRUE,
                     rows |-> <<>>]
               ELSE [made |-> <<SiteCall(Head(ss))>> \o rest.made, raised |-> FALSE,
                     rows |-> Labelled(r.rows, Head(ss).name) \o rest.rows]
               : rest \in RunSites(Tail(ss))}
         : r \in buses_by_stop_route_dir_within_radius(store, SiteCall(Head(ss)))}

\* lines 260-280: "Run query"; an exception of a call leaves the handler
\* before result_df is assigned
RunQuery ==
  /\ \E o \in RunSites(SitesToRun) :
       /\ calls' = [run |-> TRUE, made |-> o.made, raised |-> o.raised]
       /\ result_df' = IF o.raised THEN result_df ELSE [isNone |-> FALSE, rows |-> o.rows]
  /\ UNCHANGED <<ui, clicked, sites, ingestVars, queryVars>>

\* lines 302-303: "Clear results", shown with a non-empty result
ClearResults ==
  /\ ~result_df.isNone /\ result_df.rows # <<>>
  /\ result_df' = NoFrame /\ Rerun
  /\ UNCHANGED <<ui, clicked, sites, ingestVars, queryVars>>

InitPage ==
  /\ AfterMain(<<FeedA, FeedB>>)
  /\ InitQuery
  /\ ui = [WidgetDefaults EXCEPT !.selected_feeds = DiscoverFeeds(store)]
  /\ sites = <<>> /\ clicked = <<0, 0>> /\ result_df = NoFrame /\ calls = NoRun

NextUI ==
  \/ \E p \in UiPoints : MapClick(p)
  \/ \E r \in Radii : SetRadius(r)
  \/ \E l \in {<<>>, <<"A">>, <<"A", "B">>} : SelectFeeds(l)
  \/ AddSite
  \/ \E ticked \in SUBSET DOMAIN sites : DeleteSelected(ticked)
  \/ ClearSites
  \/ RunQuery
  \/ ClearResults

SpecUI == InitPage /\ [][NextUI]_vars

\* ---------------------------------------------------------------- page claim
\* every frame the loop over ss can concatenate when no call raises
RECURSIVE Concatenations(_)
Concatenations(ss) ==
  IF ss = <<>> THEN {<<>>}
  ELSE {Labelled(r.rows, Head(ss).name) \o rest :
          r \in {x \in buses_by_stop_route_dir_within_radius(store, SiteCall(Head(ss))) :
                   x.status = "ok"},
          rest \in Concatenations(Tail(ss))}

\* C10: after "Run query" the query has been called once per site of the
\* list, with the site's lon, lat and radius_ft (once, for the clicked point
\* and the slider's radius, when the list is empty), and the stored result
\* is the sites' results in list order, each row labelled with its site
C10_MultiSiteBatching ==
  calls.run =>
    /\ Len(calls.made) = Len(SitesToRun)
    /\ \A i \in DOMAIN calls.made :
         /\ calls.made[i].lon = SitesToRun[i].lon /\ calls.made[i].lat = SitesToRun[i].lat
         /\ calls.made[i].radius_ft = SitesToRun[i].radius_ft
    /\ ~result_df.isNone
    /\ result_df.rows \in Concatenations(SitesToRun)

\* ------------------------------------------------------ ingestion claims
FeedIds == {"A", "B", "C"}

HasFile(tb, feed_id) == feed_id \in DOMAIN store[tb]

\* C6: at every point of an ingestion run each feed has either no file in
\* any of the five tables, or a file in all five, all written by one run
C6_AtomicPartitionReplacement ==
  \A feed_id \in FeedIds :
    \/ \A tb \in TableSet : ~HasFile(tb, feed_id)
    \/ /\ \A tb \in TableSet : HasFile(tb, feed_id)
       /\ \A tb \in TableSet : wrun[tb][feed_id] = wrun["dim_stops"][feed_id]

\* the feed's bytes, tables and frames can all be produced
Ingestible(feed_cfg) ==
  /\ load_zip_bytes(feed_cfg, TRUE).err = ""
  /\ load_gtfs_tables(load_zip_bytes(feed_cfg, TRUE).loc).err = ""
  /\ build_one(feed_cfg.id,
               load_gtfs_tables(load_zip_bytes(feed_cfg, TRUE).loc).t).err = ""

\* C7: when a main run is over, every configured feed other than the one
\* that failed has its partition in all five tables
C7_FailuresAreFeedScoped ==
  (inMain /\ pc \in {"done", "failed"}) =>
    \A i \in DOMAIN cfg :
      (Ingestible(cfg[i]) /\ ~(pc = "failed" /\ i = idx)) =>
        \A tb \in TableSet : HasFile(tb, cfg[i].id)

\* the partition build_one computes from the bundle at loc alone
ExpectedPartition(feed_id, loc) ==
  [tb \in TableSet |-> <<build_one(feed_id, Files[loc]).frames[tb]>>]

\* build_one has just returned for the feed cur
BuildOneReturned == pc \in {"loop", "done"} /\ cur.loc # ""

\* C8: a completed build_one of the same feed from the same source bytes
\* leaves the feed's partition row for row as the first such run left it,
\* whatever ran in between: the stop-events are not duplicated, and nothing
\* of an earlier partition of the feed is kept
C8_IdempotentReingestion ==
  /\ \A key \in DOMAIN built :
       /\ built[key].last = built[key].first
       /\ Len(built[key].last["fact_stop_events"][1].rows)
            = Len(built[key].first["fact_stop_events"][1].rows)
  /\ BuildOneReturned =>
       /\ <<cur.id, cur.loc>> \in DOMAIN built
       /\ built[<<cur.id, cur.loc>>].last = Partition(store, cur.id)
       /\ Partition(store, cur.id) = ExpectedPartition(cur.id, cur.loc)

\* feed A was built again from a.zip after a build from a2.zip
C8_Witness ==
  /\ <<"A", "a.zip">> \in DOMAIN built
  /\ <<"A", "a2.zip">> \in DOMAIN built
  /\ built[<<"A", "a.zip">>].times = 2
  /\ Len(built[<<"A", "a.zip">>].last["fact_stop_events"][1].rows) = 6
  /\ pc = "done" /\ Partition(store, "A") = built[<<"A", "a.zip">>].last

\* the columns GTFS requires of each raw table
RequiredRawCols(name) ==
  CASE name = "stops" -> {"stop_id", "stop_name", "stop_lat", "stop_lon"}
    [] name = "routes" -> {"route_id", "route_short_name", "route_long_name", "route_type"}
    [] name = "trips" -> {"route_id", "service_id", "trip_id"}
    [] name = "stop_times" -> {"trip_id", "arrival_time", "stop_id", "stop_sequence"}
    [] OTHER -> Range(CalendarCols)

RequiredPresent(t) ==
  /\ RequiredFiles \subseteq DOMAIN t
  /\ \A name \in RequiredFiles : RequiredRawCols(name) \subseteq Range(t[name].columns)

\* the column list of each output table
OutputCols(tb) ==
  CASE tb = "dim_stops" -> STOP_COLS \o <<"x2263", "y2263">>
    [] tb = "dim_trips" -> Append(TRIP_COLS, "feed_id")
    [] tb = "dim_routes" -> ROUTES_COLS
    [] tb = "calendar_base" -> Append(CalendarCols, "feed_id")
    [] OTHER -> FACT_COLS

\* C9: build_one succeeds on every raw feed that has the required tables and
\* columns, whichever optional columns are missing, and each of the five
\* frames it writes has its fixed column list and feed_id on every row
C9_SchemaUnion ==
  /\ (pc = "failed" /\ err.at = "build_one") => ~RequiredPresent(Files[cur.loc])
  /\ pc = "write" =>
       \A tb \in TableSet :
         /\ out[tb].columns = OutputCols(tb)
         /\ \A i \in DOMAIN out[tb].rows : out[tb].rows[i].feed_id = cur.id

====
